---- MODULE Spec2Model ----
(***************************************************************************)
(* Model of dispatching/update_listeners/webhooks.rs: the webhook Options  *)
(* builder and setup_webhook, the registration handshake with the remote   *)
(* service.                                                                *)
(***************************************************************************)
EXTENDS Integers, Sequences, FiniteSets, TLC

(* ---- bounds ---- *)
MaxCalls == 3
MaxSteps == 3

(* ---- values ---- *)
\* Option<T>: None is the empty sequence, Some(v) the one-element sequence.
None == <<>>
Some(v) == <<v>>

\* Result<(), R::Err>
Ok == <<"Ok">>
Err(e) == <<"Err", e>>

\* R::Err: the remote declined the call, or the transport failed.
Errors == {"Rejected", "Transport"}
Responses == {Ok} \cup {Err(e) : e \in Errors}

\* SocketAddr values for Options.address
Addresses == {"127.0.0.1:8443", "0.0.0.0:80"}

\* Ports the remote service documents as supported.
AllowedPorts == {443, 80, 88, 8443}

\* url::Url values for Options.url, some with a port outside AllowedPorts.
Urls == {[host |-> "example.com", port |-> p, path |-> "/hook"] : p \in {443, 8443, 8080}}

\* InputFile payloads
InputFiles == {"certA", "certB"}

(* ---- Options and its builder ---- *)
Options_new(address, url) ==
    [address |-> address, url |-> url,
     certificate |-> None, drop_pending_updates |-> None]

\* as if written `Self { certificate: Some(v), ..Self::new(address, url) }`
Options_certificate_resets(self, v) ==
    [Options_new(self.address, self.url) EXCEPT !.certificate = Some(v)]

Options_certificate(self, v) ==
    [self EXCEPT !.certificate = Some(v)]

\* as if written `Self { drop_pending_updates: Some(true), ..Self::new(address, url) }`
Options_drop_pending_updates_resets(self) ==
    [Options_new(self.address, self.url) EXCEPT !.drop_pending_updates = Some(TRUE)]

Options_drop_pending_updates(self) ==
    [self EXCEPT !.drop_pending_updates = Some(TRUE)]

\* Options.drop_pending_updates is a public field: a caller may store any
\* Option<bool> in it.
Options_set_drop_pending_updates(self, b) ==
    [self EXCEPT !.drop_pending_updates = Some(b)]

(* ---- setup_webhook ---- *)
\* Option::take: the value moved out, and what is left behind.
take(opt) == [taken |-> opt, left |-> None]

\* bot.set_webhook(url): a request whose payload has the url and every
\* optional field unset.
set_webhook(url) ==
    [url |-> url, certificate |-> None, drop_pending_updates |-> None]

\* as if the certificate were taken but never stored in the payload
setup_webhook_prepare_no_certificate(o) ==
    LET t == take(o.certificate)
        req == [set_webhook(o.url) EXCEPT
                   !.drop_pending_updates = o.drop_pending_updates]
    IN  [req |-> req, options |-> [o EXCEPT !.certificate = t.left]]

\* as if written `drop_pending_updates.unwrap_or(false)`: an explicit value
\* is sent for an unset flag
setup_webhook_prepare_explicit_flag(o) ==
    LET t == take(o.certificate)
        req == [set_webhook(o.url) EXCEPT
                   !.certificate = t.taken,
                   !.drop_pending_updates =
                       IF o.drop_pending_updates = None THEN Some(FALSE)
                       ELSE o.drop_pending_updates]
    IN  [req |-> req, options |-> [o EXCEPT !.certificate = t.left]]

\* as if written `certificate.clone()`: the options keep the certificate
setup_webhook_prepare_clone(o) ==
    LET req == [set_webhook(o.url) EXCEPT
                   !.certificate = o.certificate,
                   !.drop_pending_updates = o.drop_pending_updates]
    IN  [req |-> req, options |-> o]

\* as if the flag were taken out of the options like the certificate
setup_webhook_prepare_takes_flag(o) ==
    LET t == take(o.certificate)
        f == take(o.drop_pending_updates)
        req == [set_webhook(o.url) EXCEPT
                   !.certificate = t.taken,
                   !.drop_pending_updates = f.taken]
    IN  [req |-> req,
         options |-> [o EXCEPT !.certificate = t.left,
                               !.drop_pending_updates = f.left]]

\* Lines 72-76: the request that is built, and the options left behind.
setup_webhook_prepare(o) ==
    LET t == take(o.certificate)
        req == [set_webhook(o.url) EXCEPT
                   !.certificate = t.taken,
                   !.drop_pending_updates = o.drop_pending_updates]
    IN  [req |-> req, options |-> [o EXCEPT !.certificate = t.left]]

\* From<R::Err> for R::Err, used by `?`
From(e) == e

\* as if written `let _ = req.send().await; Ok(())`
setup_webhook_finish_swallows(resp) == Ok

\* Lines 78-80: `req.send().await?; Ok(())`
setup_webhook_finish(resp) ==
    IF resp[1] = "Err" THEN Err(From(resp[2])) ELSE Ok

(* ---- state ---- *)
VARIABLES
    options,      \* the Options value the caller holds
    new_args,     \* the arguments Options::new was called with
    steps,        \* builder steps applied to options since new
    pc,           \* position of setup_webhook: idle / awaiting / responded
    calls,        \* registration calls sent to the remote, in order
    responses,    \* what the remote (or transport) answered, in order
    results       \* what setup_webhook returned, in order

vars == <<options, new_args, steps, pc, calls, responses, results>>

Init ==
    \E a \in Addresses, u \in Urls :
        /\ options = Options_new(a, u)
        /\ new_args = [address |-> a, url |-> u]
        /\ steps = <<>>
        /\ pc = "idle"
        /\ calls = <<>>
        /\ responses = <<>>
        /\ results = <<>>

Building == pc = "idle" /\ calls = <<>> /\ Len(steps) < MaxSteps

BuildCertificate ==
    /\ Building
    /\ \E v \in InputFiles :
          /\ options' = Options_certificate(options, v)
          /\ steps' = Append(steps, <<"certificate", v>>)
    /\ UNCHANGED <<new_args, pc, calls, responses, results>>

BuildDropPendingUpdates ==
    /\ Building
    /\ options' = Options_drop_pending_updates(options)
    /\ steps' = Append(steps, <<"drop_pending_updates">>)
    /\ UNCHANGED <<new_args, pc, calls, responses, results>>

AssignDropPendingUpdates ==
    /\ Building
    /\ \E b \in BOOLEAN :
          /\ options' = Options_set_drop_pending_updates(options, b)
          /\ steps' = Append(steps, <<"assign", b>>)
    /\ UNCHANGED <<new_args, pc, calls, responses, results>>

\* as if the port were checked locally before the call is built
SetupWebhookSend_prevalidates ==
    /\ pc = "idle"
    /\ Len(calls) < MaxCalls
    /\ Len(results) < MaxCalls
    /\ IF options.url.port \in AllowedPorts
       THEN LET p == setup_webhook_prepare(options)
            IN  /\ options' = p.options
                /\ calls' = Append(calls, p.req)
                /\ pc' = "awaiting"
                /\ UNCHANGED responses
       ELSE /\ responses' = Append(responses, Err("Rejected"))
            /\ pc' = "responded"
            /\ UNCHANGED <<options, calls>>
    /\ UNCHANGED <<new_args, steps, results>>

\* setup_webhook up to the suspension at `req.send().await`
SetupWebhookSend ==
    /\ pc = "idle"
    /\ Len(calls) < MaxCalls
    /\ LET p == setup_webhook_prepare(options)
       IN  /\ options' = p.options
           /\ calls' = Append(calls, p.req)
    /\ pc' = "awaiting"
    /\ UNCHANGED <<new_args, steps, responses, results>>

\* the remote service accepts or rejects the call, or the transport fails
RemoteRespond ==
    /\ pc = "awaiting"
    /\ \E r \in Responses : responses' = Append(responses, r)
    /\ pc' = "responded"
    /\ UNCHANGED <<options, new_args, steps, calls, results>>

\* as if a failed call were sent once more before returning
SetupWebhookReturn_retries ==
    /\ pc = "responded"
    /\ LET r == setup_webhook_finish(responses[Len(responses)])
       IN  /\ results' = Append(results, r)
           /\ calls' = IF r = Ok THEN calls ELSE Append(calls, calls[Len(calls)])
    /\ pc' = "idle"
    /\ UNCHANGED <<options, new_args, steps, responses>>

\* as if the certificate were put back into the options when the call fails
SetupWebhookReturn_restores ==
    /\ pc = "responded"
    /\ LET r == setup_webhook_finish(responses[Len(responses)])
       IN  /\ results' = Append(results, r)
           /\ options' = IF r = Ok THEN options
                         ELSE [options EXCEPT !.certificate = calls[Len(calls)].certificate]
    /\ pc' = "idle"
    /\ UNCHANGED <<new_args, steps, calls, responses>>

\* setup_webhook resumes with the response and returns
SetupWebhookReturn ==
    /\ pc = "responded"
    /\ results' = Append(results, setup_webhook_finish(responses[Len(responses)]))
    /\ pc' = "idle"
    /\ UNCHANGED <<options, new_args, steps, calls, responses>>

Next ==
    \/ BuildCertificate
    \/ BuildDropPendingUpdates
    \/ AssignDropPendingUpdates
    \/ SetupWebhookSend
    \/ RemoteRespond
    \/ SetupWebhookReturn

Spec == Init /\ [][Next]_vars

(* ---- properties ---- *)
Last(s) == s[Len(s)]
Sent == Len(calls') = Len(calls) + 1
Returned == Len(results') = Len(results) + 1
DisallowedPort == options.url.port \notin AllowedPorts

\* C1: every invocation of setup_webhook sends exactly one registration
\* call, whatever the outcome: the calls sent are one per completed
\* invocation, plus one for the invocation in progress, and a failed call is
\* not sent again.
C1_OneCallPerInvocation ==
    /\ pc = "idle" => Len(calls) = Len(results)
    /\ pc # "idle" => Len(calls) = Len(results) + 1

C1_Witness ==
    /\ pc = "idle"
    /\ Len(results) >= 2
    /\ results[1] = Err("Transport")
    /\ results[2] = Ok

\* C2: the call that setup_webhook sends carries the url of the options and
\* the certificate the options held when it was invoked (none if none).
C2_CallCarriesUrlAndCertificate ==
    [][Sent => /\ Last(calls').url = options.url
               /\ Last(calls').certificate = options.certificate]_vars

C2_Witness ==
    /\ Len(calls) >= 2
    /\ calls[1].certificate = Some("certB")
    /\ calls[2].certificate = None
    /\ calls[1].url = new_args.url

\* C3: a field unset in the options is absent from the call, not sent with
\* an explicit value; a drop_pending_updates that is set is sent as it is.
C3_UnsetFieldsOmitted ==
    [][Sent => /\ options.drop_pending_updates = None
                    => Last(calls').drop_pending_updates = None
               /\ options.certificate = None
                    => Last(calls').certificate = None
               /\ options.drop_pending_updates # None
                    => Last(calls').drop_pending_updates = options.drop_pending_updates]_vars

C3_Witness ==
    /\ calls # <<>>
    /\ steps = <<>>
    /\ calls[1].drop_pending_updates = None
    /\ calls[1].certificate = None

\* C4: setup_webhook returns Ok exactly when its call succeeded, returns the
\* error of a failed call unchanged, and on returning changes nothing else.
C4_ResultIsResponse ==
    /\ [](\A i \in 1..Len(results) :
            /\ results[i] = Ok <=> responses[i] = Ok
            /\ responses[i] # Ok => results[i] = responses[i])
    /\ [][Returned => calls' = calls /\ options' = options]_vars

C4_Witness ==
    /\ Len(results) >= 3
    /\ results[1] = Err("Rejected")
    /\ results[2] = Err("Transport")
    /\ results[3] = Ok

\* C5: a url with a port outside the allowed set is not checked locally:
\* the call is still sent, and the result is the remote's answer, the
\* rejection when it rejects and success when it accepts.
C5_NoPortPrevalidation ==
    DisallowedPort =>
        /\ Len(calls) = Len(results) + (IF pc = "idle" THEN 0 ELSE 1)
        /\ Len(responses) = Len(results) + (IF pc = "responded" THEN 1 ELSE 0)
        /\ \A i \in 1..Len(calls) : calls[i].url = options.url
        /\ \A i \in 1..Len(results) :
              /\ responses[i] = Err("Rejected") => results[i] = Err("Rejected")
              /\ responses[i] = Ok => results[i] = Ok

C5_Witness ==
    /\ DisallowedPort
    /\ Len(calls) >= 2
    /\ Len(results) >= 2
    /\ results[1] = Err("Rejected")
    /\ results[2] = Ok

\* C6: certificate and drop_pending_updates commute: applied to
\* new(address, url) in either order they give the same options, with the
\* certificate set to the payload and drop_pending_updates set to true.
C6_BuilderStepsCommute ==
    /\ \A a \in Addresses, u \in Urls, v \in InputFiles :
          Options_drop_pending_updates(Options_certificate(Options_new(a, u), v))
            = Options_certificate(Options_drop_pending_updates(Options_new(a, u)), v)
    /\ \A v \in InputFiles :
          (/\ calls = <<>>
           /\ \/ steps = << <<"certificate", v>>, <<"drop_pending_updates">> >>
              \/ steps = << <<"drop_pending_updates">>, <<"certificate", v>> >>)
          => options = [address |-> new_args.address, url |-> new_args.url,
                        certificate |-> Some(v),
                        drop_pending_updates |-> Some(TRUE)]

C6_Witness ==
    /\ calls = <<>>
    /\ steps = << <<"drop_pending_updates">>, <<"certificate", "certA">> >>
    /\ options.certificate = Some("certA")
    /\ options.drop_pending_updates = Some(TRUE)

\* C7: new leaves both optional fields unset, and a builder step changes
\* only its own field: address, url and the other optional field stay as
\* they were, after any sequence of builder steps.
C7_BuilderFrame ==
    /\ [](steps = <<>> /\ calls = <<>> =>
            options = [address |-> new_args.address, url |-> new_args.url,
                       certificate |-> None, drop_pending_updates |-> None])
    /\ [](calls = <<>> =>
            /\ options.address = new_args.address
            /\ options.url = new_args.url)
    /\ [][Len(steps') = Len(steps) + 1 =>
            /\ options'.address = options.address
            /\ options'.url = options.url
            /\ Last(steps')[1] = "certificate" =>
                  /\ options'.certificate = Some(Last(steps')[2])
                  /\ options'.drop_pending_updates = options.drop_pending_updates
            /\ Last(steps')[1] = "drop_pending_updates" =>
                  /\ options'.drop_pending_updates = Some(TRUE)
                  /\ options'.certificate = options.certificate]_vars

C7_Witness ==
    /\ calls = <<>>
    /\ steps = << <<"certificate", "certA">>, <<"drop_pending_updates">>,
                  <<"certificate", "certB">> >>
    /\ options.certificate = Some("certB")
    /\ options.drop_pending_updates = Some(TRUE)

\* C8: once setup_webhook has returned, with Ok or with an error, the
\* options hold no certificate, and of all the calls sent for the same
\* options only the first can carry a certificate.
C8_CertificateConsumedOnce ==
    /\ results # <<>> /\ pc = "idle" => options.certificate = None
    /\ \A i \in 2..Len(calls) : calls[i].certificate = None
    /\ Cardinality({i \in 1..Len(calls) : calls[i].certificate # None}) <= 1

C8_Witness ==
    /\ pc = "idle"
    /\ Len(calls) >= 2
    /\ calls[1].certificate = Some("certA")
    /\ results[1] = Err("Transport")
    /\ results[2] = Ok

\* C9 as stated: the invocation that takes the certificate out of the
\* options is the first one whose call succeeds.
C9_TakenByFirstSuccess ==
    \A i \in 1..Len(results) :
        calls[i].certificate # None =>
            /\ results[i] = Ok
            /\ \A j \in 1..(i - 1) : results[j] # Ok

\* C9 amended: the certificate is taken by the first invocation, when it
\* builds its call and before the outcome is known; it stays taken when
\* that call fails.
C9_TakenByFirstAttempt ==
    /\ [](calls # <<>> => options.certificate = None)
    /\ [][options.certificate # None /\ options'.certificate = None =>
            /\ calls = <<>>
            /\ Sent
            /\ calls'[1].certificate = options.certificate
            /\ results' = <<>>
            /\ responses' = <<>>]_vars

C9_Witness ==
    /\ pc = "idle"
    /\ Len(results) >= 2
    /\ calls[1].certificate = Some("certB")
    /\ results[1] = Err("Rejected")
    /\ results[2] = Ok
    /\ options.certificate = None

\* C10: setup_webhook changes nothing in the options but the certificate:
\* address, url and drop_pending_updates are the same after every step of
\* it, so every call for the same options has the same url and flag.
C10_SetupFrame ==
    /\ [](\A i \in 1..Len(calls) :
            /\ calls[i].url = options.url
            /\ calls[i].drop_pending_updates = options.drop_pending_updates)
    /\ [][Sent \/ Returned \/ responses' # responses =>
            /\ options'.address = options.address
            /\ options'.url = options.url
            /\ options'.drop_pending_updates = options.drop_pending_updates]_vars

C10_Witness ==
    /\ pc = "idle"
    /\ Len(calls) >= 2
    /\ options.drop_pending_updates = Some(FALSE)
    /\ calls[2].drop_pending_updates = Some(FALSE)
    /\ results[1] = Err("Rejected")

====
